---- MODULE Spec2Model ----
(***************************************************************************)
(* Model of the Transistor.fm API client: the sliding-window rate limiter  *)
(* (_enforce_rate_limit), the request pipeline with its status-to-error    *)
(* classifier (_request, upload_audio), the headers of the session, the    *)
(* pagination workaround (get_all_episode_ids, get_all_episodes_full_data) *)
(* and the command-line front end (cli.py).                                *)
(*                                                                         *)
(* Time is counted in ticks of 0.1 second, the granularity of the buffer   *)
(* the limiter adds to its sleep: 10 seconds are 100 ticks.                *)
(***************************************************************************)
EXTENDS Integers, Sequences, FiniteSets, TLC

VARIABLES
    clock,           \* time.time(), in ticks
    auto_rate_limit, \* self.auto_rate_limit
    request_times,   \* self.request_times, deque(maxlen=10)
    nreq,            \* number of HTTP requests sent by this client so far
    wire,            \* the most recent requests put on the wire, oldest first
    result,          \* what the most recent client operation gave its caller
    api_key,         \* self.api_key
    session_headers, \* self.session.headers
    sent_request,    \* the most recent HTTP request as the transport sent it
    listing,         \* the latest list_episodes call: arguments and document
    earlier,         \* caller: the result it kept from its previous call
    cli,             \* the command-line process: what it printed, how it ended
    server_mode,     \* server: what the list endpoint does with page, per_page
    loop_kind,       \* TransistorClientFixed: which pagination loop is running
    batch_size,      \* its batch_size (per_page for the iterator)
    pg_pc,           \* where the pagination loop stands
    page,            \* its local page
    all_episodes,    \* its local all_episodes (the episodes yielded so far)
    page_got,        \* what its latest list_episodes call gave
    pg_ret,          \* what the loop gave its caller
    answers,         \* server: its answer to the analytics request and to
                     \* the fetch of each episode, in list order
    ff_pc,           \* TransistorClientFinalFix: where its
                     \* get_all_episodes_full_data stands
    ff_episode_ids,  \* its local episode_ids
    ff_idx,          \* its loop index i
    ff_episodes,     \* its local episodes
    ff_failed_episodes, \* its local failed_episodes
    ff_fetched,      \* the single-episode fetches it issued, in order
    ff_raised,       \* the error it left with, if any
    ff_ret,          \* the document it returned
    locked,          \* threads: the callers put a lock of theirs around enforce
    lock_owner,      \* the thread that holds that lock, 0 for none
    th_pc,           \* where each thread stands in _enforce_rate_limit
    th_now,          \* its local now
    th_wake,         \* the time at which its time.sleep() ends
    th_last,         \* how its latest call of the limiter ended
    th_calls,        \* the calls of the limiter entered so far
    analytics,       \* server: the all-episodes analytics document of the show
    listed,          \* server: the episode ids the list endpoint returns
    ids_result,      \* what get_all_episode_ids returned last
    pc,              \* where get_all_episodes_full_data stands
    episode_ids,     \* its local episode_ids
    idx,             \* its loop index i: the fetches done so far
    episodes,        \* its local episodes
    failed_episodes, \* its local failed_episodes
    fetched,         \* the single-episode fetches it issued, in order
    pauses,          \* the list positions after which it slept
    ret              \* the document it returned

clientVars == <<clock, auto_rate_limit, request_times, nreq, wire, result>>
serverVars == <<analytics, listed>>
bulkVars ==
    <<ids_result, pc, episode_ids, idx, episodes, failed_episodes, fetched,
      pauses, ret>>
sessionVars == <<api_key, session_headers>>
callerVars == <<earlier, cli>>
pageVars ==
    <<server_mode, loop_kind, batch_size, pg_pc, page, all_episodes, page_got,
      pg_ret>>
\* The state of the other client classes, which the operations of
\* TransistorClient leave alone
finalFixVars ==
    <<answers, ff_pc, ff_episode_ids, ff_idx, ff_episodes, ff_failed_episodes,
      ff_fetched, ff_raised, ff_ret>>
threadVars == <<locked, lock_owner, th_pc, th_now, th_wake, th_last, th_calls>>
otherVars == <<pageVars, finalFixVars, threadVars>>
vars ==
    <<clientVars, serverVars, bulkVars, sessionVars, sent_request, listing,
      callerVars, otherVars>>

----------------------------------------------------------------------------
(* Program constants *)

RateLimit == 10     \* deque(maxlen=10), len(self.request_times) >= 10
RateWindow == 100   \* "> 10" and "10 - (...)": 10 seconds, in ticks
Buffer == 1         \* "+ 0.1  # Small buffer", in ticks
NoStatus == 0       \* status_code=None

PauseEvery == 9     \* (i + 1) % 9 == 0
PauseTime == 10     \* time.sleep(1), in ticks
ListCap == 20
PerPageCap == 100       \* "Only returns first 20 episodes"

(* Bounds of the model *)

MaxRequests == 22   \* requests of one run of the limiter
MaxTime == 200      \* the clock stops being advanced by the caller here
WireKeep == 12      \* how many of the latest sent requests are remembered
MaxOps == 2         \* operations of one run of the request pipeline
MaxIds == 3         \* episodes of a show whose ids are drawn freely
MaxEpisodes == 10
MaxShowCalls == 3
MaxPages == 102
MaxThreadCalls == 12   \* episodes of a show fetched in bulk

Delays == {50, 100}   \* how long a caller may stay idle between two calls

----------------------------------------------------------------------------
(* The rate limiter: add_rate_limiting.py, _enforce_rate_limit *)

\* EvictOld with `if` in the place of `while`: at most one timestamp goes
EvictOldOnce(times, now) ==
    IF times # <<>> /\ now - Head(times) > RateWindow THEN Tail(times) ELSE times

RECURSIVE EvictOld(_, _)
\* while self.request_times and now - self.request_times[0] > 10: popleft()
EvictOld(times, now) ==
    IF times # <<>> /\ now - Head(times) > RateWindow
    THEN EvictOld(Tail(times), now)
    ELSE times

\* SleepTime with the test written len(self.request_times) > 10, which a
\* deque of maxlen 10 never satisfies
SleepTimeOffByOne(times, now) ==
    IF Len(times) > RateLimit
    THEN LET sleep_time == RateWindow - (now - Head(times)) + Buffer
         IN  IF sleep_time > 0 THEN sleep_time ELSE 0
    ELSE 0

\* SleepTime without the 0.1 second buffer
SleepTimeNoBuffer(times, now) ==
    IF Len(times) >= RateLimit
    THEN LET sleep_time == RateWindow - (now - Head(times))
         IN  IF sleep_time > 0 THEN sleep_time ELSE 0
    ELSE 0

\* sleep_time = 10 - (now - self.request_times[0]) + 0.1, slept when the
\* window holds 10 timestamps and the value is positive
SleepTime(times, now) ==
    IF Len(times) >= RateLimit
    THEN LET sleep_time == RateWindow - (now - Head(times)) + Buffer
         IN  IF sleep_time > 0 THEN sleep_time ELSE 0
    ELSE 0

\* DequeAppend that records nothing
DequeAppendNothing(times, t) == times

\* deque(maxlen=10).append: a full deque drops its leftmost element
DequeAppend(times, t) ==
    IF Len(times) >= RateLimit
    THEN Append(Tail(times), t)
    ELSE Append(times, t)

\* self.request_times.append(now): the value appended is the `now` read on
\* entry, whatever time.sleep() did in between
RecordedTime(now, woke) == now

\* EnforceRateLimit appending its timestamp twice
EnforceRateLimitTwice(times, now) ==
    LET kept == EvictOld(times, now)
        slept == SleepTime(kept, now)
    IN  [request_times |-> DequeAppend(DequeAppend(kept, now), now),
         slept |-> slept,
         woke |-> now + slept]

\* One call of _enforce_rate_limit entered at `now`: the window it leaves
\* and the time at which it returns.
EnforceRateLimit(times, now) ==
    LET kept == EvictOld(times, now)
        slept == SleepTime(kept, now)
    IN  [request_times |-> DequeAppend(kept, RecordedTime(now, now + slept)),
         slept |-> slept,
         woke |-> now + slept]

----------------------------------------------------------------------------
(* The request pipeline: client_fixed_final.py, _request and upload_audio *)

Statuses == {200, 204, 304, 400, 401, 404, 422, 429, 500}
Bodies == {"empty", "json", "malformed"}
NetworkFailure == [kind |-> "neterr", status |-> NoStatus, body |-> "empty"]
Responses ==
    [kind : {"http"}, status : Statuses, body : Bodies] \cup {NetworkFailure}
NoResponse == [kind |-> "none", status |-> NoStatus, body |-> "empty"]

TransistorErrors ==
    {"TransistorAPIError", "RateLimitError", "AuthenticationError",
     "NotFoundError", "ValidationError"}

\* exceptions.py: every specific kind derives from TransistorAPIError
IsTransistorAPIError(cls) == cls \in TransistorErrors

\* BaseOf with ValidationError declared as a plain Exception
BaseOfValidationApart(cls) ==
    CASE cls = "TransistorAPIError" -> "Exception"
      [] cls = "RateLimitError" -> "TransistorAPIError"
      [] cls = "AuthenticationError" -> "TransistorAPIError"
      [] cls = "NotFoundError" -> "TransistorAPIError"
      [] OTHER -> "Exception"

\* The base named in each class statement of exceptions.py; the exceptions
\* of the libraries (requests, json, builtins) are Exceptions outside the
\* hierarchy.
BaseOf(cls) ==
    CASE cls = "TransistorAPIError" -> "Exception"
      [] cls = "RateLimitError" -> "TransistorAPIError"
      [] cls = "AuthenticationError" -> "TransistorAPIError"
      [] cls = "NotFoundError" -> "TransistorAPIError"
      [] cls = "ValidationError" -> "TransistorAPIError"
      [] OTHER -> "Exception"

\* isinstance(error, handler), what an `except handler:` clause tests
RECURSIVE IsInstance(_, _)
IsInstance(cls, handler) ==
    \/ cls = handler
    \/ cls # "Exception" /\ IsInstance(BaseOf(cls), handler)

\* requests.Response.ok: raise_for_status() raises for 400 <= status < 600
ResponseOk(status) == ~(400 <= status /\ status < 600)

\* Classify without the 429 branch: the status falls to `not response.ok`
ClassifyNo429(status) ==
    IF status = 401 THEN "AuthenticationError"
    ELSE IF status = 404 THEN "NotFoundError"
    ELSE IF status = 422 THEN "ValidationError"
    ELSE IF ~ResponseOk(status) THEN "TransistorAPIError"
    ELSE "none"

\* Classify with the `not response.ok` branch tested first
ClassifyGenericFirst(status) ==
    IF ~ResponseOk(status) THEN "TransistorAPIError"
    ELSE IF status = 429 THEN "RateLimitError"
    ELSE IF status = 401 THEN "AuthenticationError"
    ELSE IF status = 404 THEN "NotFoundError"
    ELSE IF status = 422 THEN "ValidationError"
    ELSE "none"

\* The if/elif chain of _request: the error class raised for a status,
\* "none" when the chain raises nothing.
Classify(status) ==
    IF status = 429 THEN "RateLimitError"
    ELSE IF status = 401 THEN "AuthenticationError"
    ELSE IF status = 404 THEN "NotFoundError"
    ELSE IF status = 422 THEN "ValidationError"
    ELSE IF ~ResponseOk(status) THEN "TransistorAPIError"
    ELSE "none"

\* exceptions.py: an error carries a message, a status code and a response
Raise(cls, msg, status, resp) ==
    [outcome |-> "raise", error |-> cls, message |-> msg,
     status_code |-> status, response |-> resp, value |-> "none"]

\* Return handing out, from the second request on, a document of the
\* client's own instead of the server's
ReturnRemembered(doc) ==
    [outcome |-> "return", error |-> "none", message |-> "",
     status_code |-> NoStatus, response |-> NoResponse,
     value |-> IF nreq > 0 /\ doc = "document" THEN "remembered" ELSE doc]

Return(doc) ==
    [outcome |-> "return", error |-> "none", message |-> "",
     status_code |-> NoStatus, response |-> NoResponse, value |-> doc]

\* The message _request gives the error it raises for a status
StatusMessage(status) ==
    IF status = 429 THEN "Rate limit exceeded. Wait 10 seconds."
    ELSE IF status = 401 THEN "Invalid API key"
    ELSE IF status = 404 THEN "Resource not found"
    ELSE IF status = 422 THEN "Validation error"
    ELSE "API error: <response.text>"

\* response.json() on a body that is not JSON raises a JSONDecodeError; it is
\* a requests.RequestException from requests 2.27 on and a plain ValueError
\* before (setup.py allows requests>=2.25.0), so the except clause of
\* _request wraps it or lets it through.
DecodeFailures ==
    {Raise("TransistorAPIError", "Request failed: <cause>", NoStatus, NoResponse),
     Raise("JSONDecodeError", "<cause>", NoStatus, NoResponse)}

\* RequestOutcomes of a client that answers a failure with an empty document
RequestOutcomesSwallow(resp) ==
    IF resp.kind = "neterr" \/ Classify(resp.status) # "none"
           \/ resp.body = "empty" \/ resp.body = "malformed"
    THEN {Return("{}")}
    ELSE {Return("document")}

\* RequestOutcomes without the try/except around the HTTP call: a network
\* failure reaches the caller as the transport raised it
RequestOutcomesNoTry(resp) ==
    IF resp.kind = "neterr"
    THEN {Raise("RequestException", "<cause>", NoStatus, NoResponse)}
    ELSE IF Classify(resp.status) # "none"
    THEN {Raise(Classify(resp.status), StatusMessage(resp.status),
                resp.status, resp)}
    ELSE IF resp.body = "empty" THEN {Return("{}")}
    ELSE IF resp.body = "json" THEN {Return("document")}
    ELSE DecodeFailures

\* RequestOutcomes returning response.json() whatever response.content is
RequestOutcomesAlwaysParse(resp) ==
    IF resp.kind = "neterr"
    THEN {Raise("TransistorAPIError", "Request failed: <cause>", NoStatus,
                NoResponse)}
    ELSE IF Classify(resp.status) # "none"
    THEN {Raise(Classify(resp.status), StatusMessage(resp.status),
                resp.status, resp)}
    ELSE IF resp.body = "json" THEN {Return("document")}
    ELSE DecodeFailures

\* What _request gives its caller for a response of the transport.
RequestOutcomes(resp) ==
    IF resp.kind = "neterr"
    THEN {Raise("TransistorAPIError", "Request failed: <cause>", NoStatus,
                NoResponse)}
    ELSE IF Classify(resp.status) # "none"
    THEN {Raise(Classify(resp.status), StatusMessage(resp.status),
                resp.status, resp)}
    ELSE IF resp.body = "empty" THEN {Return("{}")}
    ELSE IF resp.body = "json" THEN {Return("document")}
    ELSE DecodeFailures

\* What upload_audio gives its caller: requests.post is called outside any
\* try block, only 429 and `not response.ok` are told apart, and
\* response.json() is called whatever the body.
UploadOutcomes(resp) ==
    IF resp.kind = "neterr"
    THEN {Raise("RequestException", "<cause>", NoStatus, NoResponse)}
    ELSE IF resp.status = 429
    THEN {Raise("RateLimitError", "Rate limit exceeded", 429, resp)}
    ELSE IF ~ResponseOk(resp.status)
    THEN {Raise("TransistorAPIError", "Upload failed: <response.text>",
                resp.status, resp)}
    ELSE IF resp.body = "json" THEN {Return("document")}
    ELSE {Raise("JSONDecodeError", "<cause>", NoStatus, NoResponse)}

\* The operations that delegate to _request, one per resource family
RequestOps ==
    {"get_account", "get_show", "get_episode", "get_show_analytics",
     "list_subscribers"}

\* The record kept of a request put on the wire
\* A header or a query parameter that is not there
Absent == "<absent>"

ApiKeys == {"key-a", "key-b"}
HeaderNames == {"x-api-key", "Content-Type", "Accept"}

\* self.session.headers.update({...}) of the constructor
SessionHeaders(key) ==
    [h \in HeaderNames |->
        CASE h = "x-api-key" -> key
          [] h = "Content-Type" -> "application/json"
          [] h = "Accept" -> "application/json"]

\* UploadHeaders handing the session's headers over as they are
UploadHeadersKeepContentType(session) == session

\* {k: v for k, v in self.session.headers.items() if k != 'Content-Type'}
UploadHeaders(session) ==
    [h \in HeaderNames |-> IF h = "Content-Type" THEN Absent ELSE session[h]]

\* requests with files=: the transport sets the multipart content type when
\* the headers it was given hold none
Multipart(headers) ==
    IF headers["Content-Type"] = Absent
    THEN [headers EXCEPT !["Content-Type"] = "multipart/form-data"]
    ELSE headers

\* The method and endpoint each operation hands to _request
Route(op) ==
    CASE op = "get_account" -> [method |-> "GET", endpoint |-> ""]
      [] op = "get_show" -> [method |-> "GET", endpoint |-> "shows/{id}"]
      [] op = "get_episode" -> [method |-> "GET", endpoint |-> "episodes/{id}"]
      [] op = "get_show_analytics" ->
             [method |-> "GET", endpoint |-> "analytics/{id}"]
      [] op = "get_all_episodes_analytics" ->
             [method |-> "GET", endpoint |-> "analytics/{id}/episodes"]
      [] op = "list_subscribers" ->
             [method |-> "GET", endpoint |-> "shows/{id}/private_subscribers"]
      [] op = "upload_audio" -> [method |-> "POST", endpoint |-> "uploads"]

HttpRequest(op, method, endpoint, params, headers) ==
    [op |-> op, method |-> method, endpoint |-> endpoint, params |-> params,
     headers |-> headers]

NoRequest == HttpRequest("none", "none", "none", {}, [h \in HeaderNames |-> Absent])

\* self.session.request(method, url, **kwargs): the session's headers go
\* with the request
SessionRequest(op) ==
    HttpRequest(op, Route(op).method, Route(op).endpoint, {}, session_headers)

\* Python's None, for an argument left out
PyNone == "<None>"

\* if show_id: None and the empty string are false
Truthy(v) == v # PyNone /\ v # ""

ShowIdArgs == {PyNone, "", "7"}
ListParams == SUBSET {<<"status", "published">>, <<"pagination[page]", "2">>}

\* params = params.copy() if params else {}; params['show_id'] = show_id
ListQuery(show_id, params) ==
    IF Truthy(show_id)
    THEN {p \in params : p[1] # "show_id"} \cup {<<"show_id", show_id>>}
    ELSE params

\* The endpoint of the client before client_patch.py:
\* f"shows/{show_id}/episodes" if show_id else "episodes"
ListEndpointNested(show_id) ==
    IF Truthy(show_id) THEN "shows/{id}/episodes" ELSE "episodes"

\* endpoint = "episodes"
ListEndpoint(show_id) == "episodes"

Sent(op, entered, at, enforced) ==
    [op |-> op, entered |-> entered, at |-> at, enforced |-> enforced]

Remember(log, entry) ==
    IF Len(log) >= WireKeep THEN Append(Tail(log), entry) ELSE Append(log, entry)

----------------------------------------------------------------------------
(* The pagination workaround: client_fixed_final.py, get_all_episode_ids
   and get_all_episodes_full_data *)

RECURSIVE ToStr(_)
\* str(ep['id']): the decimal digits of the id
ToStr(n) == IF n < 10 THEN <<n>> ELSE Append(ToStr(n \div 10), n % 10)

\* The server's analytics document: where the episodes sit, or what is
\* missing on the way to them, and the ids of the episodes in its order.
IdPool == {7, 46, 65}
RECURSIVE SeqsUpTo(_, _)
SeqsUpTo(S, n) ==
    IF n = 0 THEN {<<>>}
    ELSE LET shorter == SeqsUpTo(S, n - 1)
         IN  shorter \cup {Append(q, x) : q \in shorter, x \in S}

Doc(shape, ids) == [shape |-> shape, ids |-> ids]
EmptyDoc == Doc("no_data", <<>>)
DegenerateDocs ==
    {EmptyDoc, Doc("no_attributes", <<>>), Doc("no_episodes", <<>>)}
FreeDocs == DegenerateDocs \cup {Doc("full", q) : q \in SeqsUpTo(IdPool, MaxIds)}
BulkDocs == {EmptyDoc} \cup {Doc("full", [k \in 1..n |-> k]) : n \in 0..MaxEpisodes}

\* What the capped list endpoint may hold for a show: a tail of its episodes
ListPages(ids) ==
    {SubSeq(ids, k, Len(ids)) : k \in {j \in 1..(Len(ids) + 1) : Len(ids) - j < ListCap}}
LastPage(ids) ==
    IF Len(ids) <= ListCap THEN ids
    ELSE SubSeq(ids, Len(ids) - ListCap + 1, Len(ids))

\* The lines of get_all_episode_ids after the analytics call:
\* 'data' in analytics and 'attributes' in analytics['data'], then
\* .get('episodes', []) and [str(ep['id']) for ep in episodes]
ExtractIdsFromList(doc) == [k \in 1..Len(listed) |-> ToStr(listed[k])]
ExtractIds(doc) ==
    IF doc.shape # "no_data" /\ doc.shape # "no_attributes"
    THEN LET eps == IF doc.shape = "no_episodes" THEN <<>> ELSE doc.ids
         IN  [k \in 1..Len(eps) |-> ToStr(eps[k])]
    ELSE <<>>

\* The document of the list endpoint: one page and the totals of its meta
ListDoc(kind, data, total) ==
    [kind |-> kind, data |-> data, totalCount |-> total,
     totalPages |-> (total + ListCap - 1) \div ListCap]
NoListDoc == ListDoc("none", <<>>, 0)
EmptyListDoc == ListDoc("{}", <<>>, 0)
ServerListDoc == ListDoc("page", listed, Len(analytics.ids))
ListTotals == {0, 3, 25}

\* The document _request returned: the server's, or {} for an empty body
DocOf(got) == IF got.value = "document" THEN analytics ELSE EmptyDoc

\* episode['data'] of the record the server holds for an id
EpisodeRecord(id) == [id |-> id, type |-> "episode"]

\* (i + 1) % 9 == 0 and i + 1 < len(episode_ids)
ShouldPauseActualFix(i, n) == (i + 1) % PauseEvery = 0
ShouldPause(i, n) == (i + 1) % PauseEvery = 0 /\ i + 1 < n

\* except Exception as e: every error a fetch can raise is caught
CatchesOnlyAPIErrors(cls) == IsTransistorAPIError(cls)
Catches(cls) == TRUE

\* failed_episodes.append({'id': episode_id, 'error': str(e)})
DropFailure(failed, id, msg) == failed
RecordFailure(failed, id, msg) == Append(failed, [id |-> id, error |-> msg])

\* What one pass of the loop body does with the outcome of get_episode:
\* "ok" appends episode['data'], "failed" lands in the except clause,
\* "escaped" leaves the loop with the error.
FetchVerdict(got) ==
    IF got.outcome = "return" /\ got.value = "document" THEN "ok"
    ELSE IF got.outcome = "return"
    THEN IF Catches("KeyError") THEN "failed" ELSE "escaped"
    ELSE IF Catches(got.error) THEN "failed" ELSE "escaped"

FetchError(got) == IF got.outcome = "return" THEN "'data'" ELSE got.message

\* The dict built by the return statement
BulkResult(ids, eps, failed) ==
    [data |-> eps,
     meta |-> [total_requested |-> Len(ids), successful |-> Len(eps),
               failed |-> Len(failed), failed_episodes |-> failed]]

NoResult == BulkResult(<<>>, <<>>, <<>>)

----------------------------------------------------------------------------
(* Actions *)

\* The rate-limited head of _request: if self.auto_rate_limit: enforce
\* LimiterStep without the test of self.auto_rate_limit
LimiterStepAlways == EnforceRateLimit(request_times, clock)

\* if self.auto_rate_limit: self._enforce_rate_limit()
LimiterStep ==
    IF auto_rate_limit
    THEN EnforceRateLimit(request_times, clock)
    ELSE [request_times |-> request_times, slept |-> 0, woke |-> clock]

NoOperation ==
    [op |-> "none", resp |-> NoResponse, sent |-> FALSE, got |-> Return("none")]

----------------------------------------------------------------------------
(* The pagination loops of TransistorClientFixed: client_fixed.py,
   list_episodes, get_all_episodes and list_episodes_iterator. Its _request
   is the classifier of TransistorClient without the limiter. *)

Min(a, b) == IF a <= b THEN a ELSE b

\* What the list endpoint may do with the parameters: serve the page asked
\* for, serve the first per_page items whatever the page, or serve its first
\* 20 items whatever the page and per_page
ServerModes == {"honours", "ignores_page", "capped"}
ShowSizes == {0, 1, 2, 3, 5, 20, 65, 100, 101}
BatchSizes == {1, 2, 3, 20, 25, 100, 101}
LoopKinds == {"get_all_episodes", "list_episodes_iterator"}

\* 'per_page': min(per_page, 100)
CappedPerPage(per_page) == Min(per_page, PerPageCap)

\* response['data'] of the list endpoint for a page of the show
ServedPage(mode, ids, p, per_page) ==
    LET first == IF mode = "honours" THEN (p - 1) * per_page + 1 ELSE 1
        size == IF mode = "capped" THEN Min(per_page, ListCap) ELSE per_page
        last == Min(first + size - 1, Len(ids))
    IN  IF first > last THEN <<>> ELSE SubSeq(ids, first, last)

\* episodes = response.get('data', []) of the document list_episodes gave
PageData(got) ==
    IF got.value = "document"
    THEN ServedPage(server_mode, analytics.ids, page, CappedPerPage(batch_size))
    ELSE <<>>

\* The except clause swallowing the error on every page
SwallowsOnEveryPage(p) == TRUE

\* if page > 1: break, else: raise e
Swallows(p) == p > 1

\* except (NotFoundError, TransistorAPIError) of get_all_episodes; the
\* iterator has no try
PageCatches(kind, cls) ==
    /\ kind = "get_all_episodes"
    /\ \/ IsInstance(cls, "NotFoundError")
       \/ IsInstance(cls, "TransistorAPIError")

NoMeta == [total_count |-> 0, pages_fetched |-> 0, batch_size |-> 0]
NoPagesResult ==
    [outcome |-> "none", error |-> "none", data |-> <<>>, meta |-> NoMeta]

\* The dict get_all_episodes returns; the iterator gives no value beyond
\* the episodes it has yielded
PagesResult(kind, eps, p, bs) ==
    [outcome |-> "return", error |-> "none", data |-> eps,
     meta |-> IF kind = "get_all_episodes"
              THEN [total_count |-> Len(eps), pages_fetched |-> p,
                    batch_size |-> bs]
              ELSE NoMeta]

PagesRaised(got) ==
    [outcome |-> "raise", error |-> got.error, data |-> <<>>, meta |-> NoMeta]

InitPaging(modes) ==
    /\ server_mode \in modes
    /\ loop_kind = "none"
    /\ batch_size = 0
    /\ pg_pc = "idle"
    /\ page = 0
    /\ all_episodes = <<>>
    /\ page_got = Return("none")
    /\ pg_ret = NoPagesResult

----------------------------------------------------------------------------
(* get_all_episodes_full_data of TransistorClientFinalFix:
   client_final_fix.py. Its _request is the classifier of TransistorClient
   without the limiter. *)

\* What the server holds for an episode: a record with attributes and a
\* title, a record that lacks one of them, no record (404), or an answer
\* without a body
EpisodeAnswers == {"full", "no_title", "no_attributes", "not_found", "empty_body"}

ResponseOf(answer) ==
    CASE answer = "not_found" -> [kind |-> "http", status |-> 404, body |-> "json"]
      [] answer = "empty_body" -> [kind |-> "http", status |-> 200, body |-> "empty"]
      [] OTHER -> [kind |-> "http", status |-> 200, body |-> "json"]

NoAnswers ==
    [analytics |-> [kind |-> "http", status |-> 200, body |-> "json"],
     episodes |-> <<>>]

\* print(f"... {episode['data']['attributes']['title']}"): the KeyError it
\* raises on a record that lacks the key, "none" when it prints
PrintTitleError(answer) ==
    CASE answer = "no_attributes" -> "'attributes'"
      [] answer = "no_title" -> "'title'"
      [] OTHER -> "none"

InitFinalFix(server) ==
    /\ answers \in server
    /\ ff_pc = "idle"
    /\ ff_episode_ids = <<>>
    /\ ff_idx = 0
    /\ ff_episodes = <<>>
    /\ ff_failed_episodes = <<>>
    /\ ff_fetched = <<>>
    /\ ff_raised = Return("none")
    /\ ff_ret = NoResult

\* get_all_episodes_full_data up to the loop
FinalFixStart ==
    /\ ff_pc = "idle"
    /\ \E got \in RequestOutcomes(answers.analytics) :
           IF got.outcome = "raise"
           THEN /\ ff_pc' = "raised"
                /\ ff_raised' = got
                /\ UNCHANGED ff_episode_ids
           ELSE /\ ff_pc' = "loop"
                /\ ff_episode_ids' = ExtractIds(DocOf(got))
                /\ UNCHANGED ff_raised
    /\ UNCHANGED <<answers, ff_idx, ff_episodes, ff_failed_episodes,
                   ff_fetched, ff_ret>>
    /\ UNCHANGED <<clientVars, serverVars, bulkVars, sessionVars, sent_request,
                   listing, callerVars, pageVars, threadVars>>

\* One pass of its loop: get_episode, the append, the print of the title,
\* the pause, or the except clause.
FinalFixFetch ==
    /\ ff_pc = "loop"
    /\ ff_idx < Len(ff_episode_ids)
    /\ LET id == ff_episode_ids[ff_idx + 1]
           answer == answers.episodes[ff_idx + 1]
       IN  \E got \in RequestOutcomes(ResponseOf(answer)) :
               LET verdict == FetchVerdict(got)
                   printed == PrintTitleError(answer)
               IN  /\ ff_fetched' =
                          Append(ff_fetched, [id |-> id, ok |-> verdict = "ok"])
                   /\ ff_episodes' =
                          IF verdict = "ok"
                          THEN Append(ff_episodes, EpisodeRecord(id))
                          ELSE ff_episodes
                   /\ ff_failed_episodes' =
                          IF verdict = "ok"
                          THEN IF printed = "none" THEN ff_failed_episodes
                               ELSE RecordFailure(ff_failed_episodes, id, printed)
                          ELSE RecordFailure(ff_failed_episodes, id,
                                             FetchError(got))
    /\ ff_idx' = ff_idx + 1
    /\ UNCHANGED <<answers, ff_pc, ff_episode_ids, ff_raised, ff_ret>>
    /\ UNCHANGED <<clientVars, serverVars, bulkVars, sessionVars, sent_request,
                   listing, callerVars, pageVars, threadVars>>

\* Its loop is over: return the dict.
FinalFixReturn ==
    /\ ff_pc = "loop"
    /\ ff_idx = Len(ff_episode_ids)
    /\ ff_pc' = "done"
    /\ ff_ret' = BulkResult(ff_episode_ids, ff_episodes, ff_failed_episodes)
    /\ UNCHANGED <<answers, ff_episode_ids, ff_idx, ff_episodes,
                   ff_failed_episodes, ff_fetched, ff_raised>>
    /\ UNCHANGED <<clientVars, serverVars, bulkVars, sessionVars, sent_request,
                   listing, callerVars, pageVars, threadVars>>

----------------------------------------------------------------------------
(* Two threads that share one client: _enforce_rate_limit statement by
   statement. A statement takes no time; time passes while a thread sleeps
   or while the threads are between calls. *)

Threads == {1, 2}

\* MayEnter for callers whose lock does not keep the other thread out
MayEnterUnguarded(t) == TRUE

\* with lock: self._enforce_rate_limit(), when the callers use a lock
MayEnter(t) == locked => lock_owner = 0

InitThreads(locks) ==
    /\ locked \in locks
    /\ lock_owner = 0
    /\ th_pc = [t \in Threads |-> "idle"]
    /\ th_now = [t \in Threads |-> 0]
    /\ th_wake = [t \in Threads |-> 0]
    /\ th_last = [t \in Threads |-> "none"]
    /\ th_calls = 0

ThreadRest ==
    <<auto_rate_limit, result, serverVars, bulkVars, sessionVars, sent_request,
      listing, callerVars, pageVars, finalFixVars, locked>>

\* A statement of thread t that changes nothing but its position
Goto(t, label) ==
    /\ th_pc' = [th_pc EXCEPT ![t] = label]
    /\ UNCHANGED <<clock, request_times, nreq, wire, lock_owner, th_now,
                   th_wake, th_last, th_calls>>

\* self.request_times[0] or popleft() on a deque another thread has
\* emptied: IndexError leaves the limiter and _request
IndexError(t) ==
    /\ th_pc' = [th_pc EXCEPT ![t] = "idle"]
    /\ th_last' = [th_last EXCEPT ![t] = "IndexError"]
    /\ lock_owner' = IF lock_owner = t THEN 0 ELSE lock_owner
    /\ UNCHANGED <<clock, request_times, nreq, wire, th_now, th_wake, th_calls>>

\* now = time.time()
ThEnter(t) ==
    /\ th_pc[t] = "idle"
    /\ th_calls < MaxThreadCalls
    /\ MayEnter(t)
    /\ th_calls' = th_calls + 1
    /\ th_now' = [th_now EXCEPT ![t] = clock]
    /\ th_pc' = [th_pc EXCEPT ![t] = "evict_test"]
    /\ lock_owner' = IF locked THEN t ELSE lock_owner
    /\ UNCHANGED <<clock, request_times, nreq, wire, th_wake, th_last>>
    /\ UNCHANGED ThreadRest

\* while self.request_times ...
ThEvictTest(t) ==
    /\ th_pc[t] = "evict_test"
    /\ Goto(t, IF request_times = <<>> THEN "check" ELSE "evict_read")
    /\ UNCHANGED ThreadRest

\* ... and now - self.request_times[0] > 10:
ThEvictRead(t) ==
    /\ th_pc[t] = "evict_read"
    /\ IF request_times = <<>> THEN IndexError(t)
       ELSE Goto(t, IF th_now[t] - Head(request_times) > RateWindow
                    THEN "evict_pop" ELSE "check")
    /\ UNCHANGED ThreadRest

\* self.request_times.popleft()
ThEvictPop(t) ==
    /\ th_pc[t] = "evict_pop"
    /\ IF request_times = <<>> THEN IndexError(t)
       ELSE /\ request_times' = Tail(request_times)
            /\ th_pc' = [th_pc EXCEPT ![t] = "evict_test"]
            /\ UNCHANGED <<clock, nreq, wire, lock_owner, th_now, th_wake,
                           th_last, th_calls>>
    /\ UNCHANGED ThreadRest

\* if len(self.request_times) >= 10:
ThCheck(t) ==
    /\ th_pc[t] = "check"
    /\ Goto(t, IF Len(request_times) >= RateLimit THEN "sleep_calc" ELSE "append")
    /\ UNCHANGED ThreadRest

\* sleep_time = 10 - (now - self.request_times[0]) + 0.1;
\* if sleep_time > 0: time.sleep(sleep_time)
ThSleepCalc(t) ==
    /\ th_pc[t] = "sleep_calc"
    /\ IF request_times = <<>> THEN IndexError(t)
       ELSE LET sleep_time ==
                    RateWindow - (th_now[t] - Head(request_times)) + Buffer
            IN  IF sleep_time > 0
                THEN /\ th_pc' = [th_pc EXCEPT ![t] = "sleeping"]
                     /\ th_wake' = [th_wake EXCEPT ![t] = clock + sleep_time]
                     /\ UNCHANGED <<clock, request_times, nreq, wire,
                                    lock_owner, th_now, th_last, th_calls>>
                ELSE Goto(t, "append")
    /\ UNCHANGED ThreadRest

Sleepers == {u \in Threads : th_pc[u] = "sleeping"}

\* time.sleep() returns: the sleeper that is due first wakes on time
ThWake(t) ==
    /\ th_pc[t] = "sleeping"
    /\ \A u \in Sleepers : th_wake[t] <= th_wake[u]
    /\ \A u \in Threads : th_pc[u] \in {"idle", "sleeping"}
    /\ th_wake[t] <= MaxTime
    /\ clock' = th_wake[t]
    /\ th_pc' = [th_pc EXCEPT ![t] = "append"]
    /\ UNCHANGED <<request_times, nreq, wire, lock_owner, th_now, th_wake,
                   th_last, th_calls>>
    /\ UNCHANGED ThreadRest

\* self.request_times.append(now); the limiter returns and the request of
\* the thread goes out
ThAppend(t) ==
    /\ th_pc[t] = "append"
    /\ request_times' = DequeAppend(request_times, th_now[t])
    /\ nreq' = nreq + 1
    /\ wire' = Remember(wire, Sent("get_account", th_now[t], clock, TRUE))
    /\ th_pc' = [th_pc EXCEPT ![t] = "idle"]
    /\ th_last' = [th_last EXCEPT ![t] = "released"]
    /\ lock_owner' = IF lock_owner = t THEN 0 ELSE lock_owner
    /\ UNCHANGED <<clock, th_now, th_wake, th_calls>>
    /\ UNCHANGED ThreadRest

\* The threads are between calls or asleep for d ticks, no sleeper
\* oversleeping
ThTick(d) ==
    /\ \A u \in Threads : th_pc[u] \in {"idle", "sleeping"}
    /\ \A u \in Sleepers : clock + d < th_wake[u]
    /\ clock + d <= MaxTime
    /\ clock' = clock + d
    /\ UNCHANGED <<request_times, nreq, wire, lock_owner, th_pc, th_now,
                   th_wake, th_last, th_calls>>
    /\ UNCHANGED ThreadRest

ThreadStep(t) ==
    \/ ThEnter(t)
    \/ ThEvictTest(t)
    \/ ThEvictRead(t)
    \/ ThEvictPop(t)
    \/ ThCheck(t)
    \/ ThSleepCalc(t)
    \/ ThWake(t)
    \/ ThAppend(t)

InitOther ==
    InitPaging({"honours"}) /\ InitFinalFix({NoAnswers}) /\ InitThreads({FALSE})

\* The caller enters get_all_episodes(show_id, batch_size) or starts
\* consuming list_episodes_iterator(show_id, per_page): all_episodes = [],
\* page = 1.
PageStart(kind, bs) ==
    /\ pg_pc = "idle"
    /\ pg_pc' = "loop"
    /\ loop_kind' = kind
    /\ batch_size' = bs
    /\ page' = 1
    /\ all_episodes' = <<>>
    /\ UNCHANGED <<server_mode, page_got, pg_ret>>
    /\ UNCHANGED <<clientVars, serverVars, bulkVars, sessionVars, sent_request,
                   listing, callerVars, finalFixVars, threadVars>>

\* One pass of `while True`: list_episodes(show_id, page, per_page), then
\* the two tests that leave the loop, or the except clause.
PageFetch(resp) ==
    /\ pg_pc = "loop"
    /\ page <= MaxPages
    /\ \E got \in RequestOutcomes(resp) :
           /\ page_got' = got
           /\ IF got.outcome = "raise"
              THEN IF PageCatches(loop_kind, got.error) /\ Swallows(page)
                   THEN /\ pg_pc' = "done"
                        /\ pg_ret' = PagesResult(loop_kind, all_episodes, page,
                                                 batch_size)
                        /\ UNCHANGED <<page, all_episodes>>
                   ELSE /\ pg_pc' = "raised"
                        /\ pg_ret' = PagesRaised(got)
                        /\ UNCHANGED <<page, all_episodes>>
              ELSE LET page_eps == PageData(got)
                       extended == all_episodes \o page_eps
                   IN  IF page_eps = <<>>
                       THEN /\ pg_pc' = "done"
                            /\ pg_ret' = PagesResult(loop_kind, all_episodes,
                                                     page, batch_size)
                            /\ UNCHANGED <<page, all_episodes>>
                       ELSE IF Len(page_eps) < batch_size
                       THEN /\ pg_pc' = "done"
                            /\ all_episodes' = extended
                            /\ pg_ret' = PagesResult(loop_kind, extended, page,
                                                     batch_size)
                            /\ UNCHANGED page
                       ELSE /\ all_episodes' = extended
                            /\ page' = page + 1
                            /\ UNCHANGED <<pg_pc, pg_ret>>
    /\ UNCHANGED <<server_mode, loop_kind, batch_size>>
    /\ UNCHANGED <<clientVars, serverVars, bulkVars, sessionVars, sent_request,
                   listing, callerVars, finalFixVars, threadVars>>

NoListing == [show_id |-> PyNone, params |-> {}, returned |-> NoListDoc]

NotRun ==
    [command |-> "none", stdout |-> "", stderr |-> <<>>, exit_code |-> 0,
     traceback |-> FALSE]

InitClient ==
    /\ clock = 0
    /\ request_times = <<>>
    /\ nreq = 0
    /\ wire = <<>>
    /\ result = NoOperation
    /\ sent_request = NoRequest
    /\ listing = NoListing
    /\ earlier = NoOperation
    /\ cli = NotRun

\* TransistorClient(api_key)
InitSession(keys) ==
    /\ api_key \in keys
    /\ session_headers = SessionHeaders(api_key)

InitBulk ==
    /\ ids_result = <<>>
    /\ pc = "idle"
    /\ episode_ids = <<>>
    /\ idx = 0
    /\ episodes = <<>>
    /\ failed_episodes = <<>>
    /\ fetched = <<>>
    /\ pauses = <<>>
    /\ ret = NoResult

Init ==
    /\ InitClient
    /\ InitBulk
    /\ InitOther
    /\ InitSession(ApiKeys)
    /\ auto_rate_limit \in BOOLEAN
    /\ analytics = EmptyDoc
    /\ listed = <<>>

\* The caller does something else for d ticks before its next call.
Advance(d) ==
    /\ clock + d <= MaxTime
    /\ clock' = clock + d
    /\ UNCHANGED <<auto_rate_limit, request_times, nreq, wire, result>>
    /\ UNCHANGED <<serverVars, bulkVars, sessionVars, otherVars, sent_request, listing,
                   callerVars>>

\* One call of an operation that goes through the rate-limited _request:
\* the limiter (when enabled), the HTTP call, the classifier. What the
\* caller does with the outcome (callerVars) is the caller's.
Request(op, resp) ==
    LET lim == LimiterStep
    IN  /\ clock' = lim.woke
        /\ request_times' = lim.request_times
        /\ nreq' = nreq + 1
        /\ wire' = Remember(wire, Sent(op, clock, lim.woke, auto_rate_limit))
        /\ sent_request' = SessionRequest(op)
        /\ \E got \in RequestOutcomes(resp) :
               result' = [op |-> op, resp |-> resp, sent |-> TRUE, got |-> got]
        /\ UNCHANGED <<auto_rate_limit, serverVars, bulkVars, sessionVars, otherVars,
                       listing>>

\* upload_audio: open() the file, then requests.post() directly.
UploadAudio(file_exists, resp) ==
    IF ~file_exists
    THEN /\ result' = [op |-> "upload_audio", resp |-> NoResponse,
                       sent |-> FALSE,
                       got |-> Raise("FileNotFoundError", "<cause>", NoStatus,
                                     NoResponse)]
         /\ UNCHANGED <<clock, auto_rate_limit, request_times, nreq, wire>>
         /\ UNCHANGED <<serverVars, bulkVars, sessionVars, otherVars, sent_request,
                        listing>>
    ELSE /\ nreq' = nreq + 1
         /\ wire' = Remember(wire, Sent("upload_audio", clock, clock, FALSE))
         /\ sent_request' =
                HttpRequest("upload_audio", Route("upload_audio").method,
                            Route("upload_audio").endpoint, {},
                            Multipart(UploadHeaders(session_headers)))
         /\ \E got \in UploadOutcomes(resp) :
                result' = [op |-> "upload_audio", resp |-> resp,
                           sent |-> TRUE, got |-> got]
         /\ UNCHANGED <<clock, auto_rate_limit, request_times>>
         /\ UNCHANGED <<serverVars, bulkVars, sessionVars, otherVars, listing>>

\* get_all_episode_ids: the all-episodes analytics request, then the
\* extraction of the ids; an error of the request propagates.
GetAllEpisodeIds(resp) ==
    LET lim == LimiterStep
    IN  /\ clock' = lim.woke
        /\ request_times' = lim.request_times
        /\ nreq' = nreq + 1
        /\ wire' = Remember(wire, Sent("get_all_episodes_analytics", clock,
                                       lim.woke, auto_rate_limit))
        /\ sent_request' = SessionRequest("get_all_episodes_analytics")
        /\ \E got \in RequestOutcomes(resp) :
               /\ result' = [op |-> "get_all_episode_ids", resp |-> resp,
                             sent |-> TRUE,
                             got |-> IF got.outcome = "raise" THEN got
                                     ELSE Return("ids")]
               /\ ids_result' = IF got.outcome = "raise" THEN ids_result
                                ELSE ExtractIds(DocOf(got))
        /\ UNCHANGED <<auto_rate_limit, serverVars, sessionVars, otherVars, listing,
                       callerVars>>
        /\ UNCHANGED <<pc, episode_ids, idx, episodes, failed_episodes,
                       fetched, pauses, ret>>

\* get_all_episodes_full_data up to the loop: episode_ids, episodes = [],
\* failed_episodes = []; an error of get_all_episode_ids propagates.
BulkStart(resp) ==
    LET lim == LimiterStep
    IN  /\ pc = "idle"
        /\ clock' = lim.woke
        /\ request_times' = lim.request_times
        /\ nreq' = nreq + 1
        /\ wire' = Remember(wire, Sent("get_all_episodes_analytics", clock,
                                       lim.woke, auto_rate_limit))
        /\ sent_request' = SessionRequest("get_all_episodes_analytics")
        /\ \E got \in RequestOutcomes(resp) :
               IF got.outcome = "raise"
               THEN /\ pc' = "raised"
                    /\ result' = [op |-> "get_all_episodes_full_data",
                                  resp |-> resp, sent |-> TRUE, got |-> got]
                    /\ UNCHANGED episode_ids
               ELSE /\ pc' = "loop"
                    /\ episode_ids' = ExtractIds(DocOf(got))
                    /\ result' = [op |-> "get_all_episode_ids", resp |-> resp,
                                  sent |-> TRUE, got |-> Return("ids")]
        /\ UNCHANGED <<auto_rate_limit, serverVars, sessionVars, otherVars, listing,
                       callerVars>>
        /\ UNCHANGED <<ids_result, idx, episodes, failed_episodes, fetched,
                       pauses, ret>>

\* One pass of the loop: get_episode(episode_id) through _request, then the
\* append and the pause, or the except clause.
BulkFetch(resp) ==
    LET lim == LimiterStep
        id == episode_ids[idx + 1]
    IN  /\ pc = "loop"
        /\ idx < Len(episode_ids)
        /\ request_times' = lim.request_times
        /\ nreq' = nreq + 1
        /\ wire' = Remember(wire, Sent("get_episode", clock, lim.woke,
                                       auto_rate_limit))
        /\ sent_request' = SessionRequest("get_episode")
        /\ \E got \in RequestOutcomes(resp) :
               LET verdict == FetchVerdict(got)
                   pause == verdict = "ok" /\ ShouldPause(idx, Len(episode_ids))
               IN  /\ fetched' = Append(fetched, [id |-> id, ok |-> verdict = "ok"])
                   /\ episodes' = IF verdict = "ok"
                                  THEN Append(episodes, EpisodeRecord(id))
                                  ELSE episodes
                   /\ failed_episodes' =
                          IF verdict = "failed"
                          THEN RecordFailure(failed_episodes, id, FetchError(got))
                          ELSE failed_episodes
                   /\ pauses' = IF pause THEN Append(pauses, idx + 1) ELSE pauses
                   /\ clock' = lim.woke + (IF pause THEN PauseTime ELSE 0)
                   /\ pc' = IF verdict = "escaped" THEN "raised" ELSE "loop"
                   /\ result' = IF verdict = "escaped"
                                THEN [op |-> "get_all_episodes_full_data",
                                      resp |-> resp, sent |-> TRUE, got |-> got]
                                ELSE result
        /\ idx' = idx + 1
        /\ UNCHANGED <<auto_rate_limit, serverVars, ids_result, episode_ids, ret>>
        /\ UNCHANGED <<sessionVars, otherVars, listing, callerVars>>

\* The loop is over: return the dict.
BulkReturn ==
    /\ pc = "loop"
    /\ idx = Len(episode_ids)
    /\ pc' = "done"
    /\ ret' = BulkResult(episode_ids, episodes, failed_episodes)
    /\ UNCHANGED <<clientVars, serverVars, sessionVars, otherVars, sent_request, listing,
                   callerVars>>
    /\ UNCHANGED <<ids_result, episode_ids, idx, episodes, failed_episodes,
                   fetched, pauses>>

OkResponse == [kind |-> "http", status |-> 200, body |-> "json"]
NotFound == [kind |-> "http", status |-> 404, body |-> "json"]
EmptyOk == [kind |-> "http", status |-> 200, body |-> "empty"]
BulkResponses == {OkResponse, NotFound, EmptyOk}

----------------------------------------------------------------------------
(* Specifications *)

\* Every operation of the client against every answer of the server.
\* list_episodes(show_id, **params): one GET through _request, whose
\* document is returned as it came.
ListEpisodes(show_id, params, resp) ==
    LET lim == LimiterStep
    IN  /\ clock' = lim.woke
        /\ request_times' = lim.request_times
        /\ nreq' = nreq + 1
        /\ wire' = Remember(wire, Sent("list_episodes", clock, lim.woke,
                                       auto_rate_limit))
        /\ sent_request' =
               HttpRequest("list_episodes", "GET", ListEndpoint(show_id),
                           ListQuery(show_id, params), session_headers)
        /\ \E got \in RequestOutcomes(resp) :
               /\ result' = [op |-> "list_episodes", resp |-> resp,
                             sent |-> TRUE, got |-> got]
               /\ listing' =
                      [show_id |-> show_id, params |-> params,
                       returned |-> IF got.outcome = "raise" THEN NoListDoc
                                    ELSE IF got.value = "document"
                                    THEN ServerListDoc
                                    ELSE EmptyListDoc]
        /\ UNCHANGED <<auto_rate_limit, serverVars, bulkVars, sessionVars, otherVars>>

\* A caller that only looks at the outcome of its call
Call(op, resp) == Request(op, resp) /\ UNCHANGED callerVars
CallUpload(file_exists, resp) ==
    UploadAudio(file_exists, resp) /\ UNCHANGED callerVars

Next ==
    \/ nreq < MaxOps /\ \E op \in RequestOps, resp \in Responses : Call(op, resp)
    \/ nreq < MaxOps /\ \E f \in BOOLEAN, resp \in Responses : CallUpload(f, resp)

Spec == Init /\ [][Next]_vars

\* A caller that repeats get_show(id) and keeps what the call before gave.
GetShowAgain(resp) ==
    /\ Request("get_show", resp)
    /\ earlier' = result
    /\ UNCHANGED cli

NextShow == nreq < MaxShowCalls /\ \E resp \in Responses : GetShowAgain(resp)

SpecShow == Init /\ [][NextShow]_vars

\* list_episodes against shows of fewer and of more episodes than one page.
InitList ==
    /\ InitClient
    /\ InitBulk
    /\ InitOther
    /\ InitSession(ApiKeys)
    /\ auto_rate_limit \in BOOLEAN
    /\ analytics \in {Doc("full", [k \in 1..n |-> k]) : n \in ListTotals}
    /\ listed = LastPage(analytics.ids)

NextList ==
    /\ nreq < MaxOps
    /\ \E show_id \in ShowIdArgs, params \in ListParams, resp \in Responses :
           ListEpisodes(show_id, params, resp)
    /\ UNCHANGED callerVars

SpecList == InitList /\ [][NextList]_vars

\* The two get_all_episodes_full_data, of TransistorClient and then of
\* TransistorClientFinalFix, against one server: every analytics document,
\* every answer to the analytics request and to each fetch.
EquivDocs == DegenerateDocs \cup {Doc("full", [k \in 1..n |-> k]) : n \in 0..MaxIds}

ServerAnswers(doc) ==
    [analytics : BulkResponses,
     episodes : [1..Len(doc.ids) -> EpisodeAnswers]]

InitEquiv ==
    /\ InitClient
    /\ InitBulk
    /\ InitSession({"key-a"})
    /\ InitPaging({"honours"})
    /\ auto_rate_limit = TRUE
    /\ analytics \in EquivDocs
    /\ listed = LastPage(analytics.ids)
    /\ InitFinalFix(ServerAnswers(analytics))
    /\ InitThreads({FALSE})

NextEquiv ==
    \/ BulkStart(answers.analytics)
    \/ /\ pc = "loop"
       /\ idx < Len(episode_ids)
       /\ BulkFetch(ResponseOf(answers.episodes[idx + 1]))
    \/ BulkReturn
    \/ pc \in {"done", "raised"} /\ FinalFixStart
    \/ FinalFixFetch
    \/ FinalFixReturn

SpecEquiv == InitEquiv /\ [][NextEquiv]_vars

\* Two threads calling the limiter of one client, with and without a lock
\* of their own around it.
InitThreaded ==
    /\ InitClient
    /\ InitBulk
    /\ InitSession({"key-a"})
    /\ InitPaging({"honours"})
    /\ InitFinalFix({NoAnswers})
    /\ InitThreads(BOOLEAN)
    /\ auto_rate_limit = TRUE
    /\ analytics = EmptyDoc
    /\ listed = <<>>

NextThreads ==
    \/ \E t \in Threads : ThreadStep(t)
    \/ \E d \in Delays : ThTick(d)

SpecThreads == InitThreaded /\ [][NextThreads]_vars

\* The pagination loops against shows of every size, every batch size and
\* every behaviour of the list endpoint; a request may fail.
PageResponses ==
    {OkResponse, EmptyOk, NotFound, NetworkFailure,
     [kind |-> "http", status |-> 200, body |-> "malformed"]}

InitPages ==
    /\ InitClient
    /\ InitBulk
    /\ InitSession({"key-a"})
    /\ InitPaging(ServerModes)
    /\ InitFinalFix({NoAnswers})
    /\ InitThreads({FALSE})
    /\ auto_rate_limit = FALSE
    /\ analytics \in {Doc("full", [k \in 1..n |-> k]) : n \in ShowSizes}
    /\ listed = LastPage(analytics.ids)

NextPages ==
    \/ \E kind \in LoopKinds, bs \in BatchSizes : PageStart(kind, bs)
    \/ \E resp \in PageResponses : PageFetch(resp)

SpecPages == InitPages /\ [][NextPages]_vars

\* The loop runs on as long as it can: nothing but its own tests stops it.
SpecPagesFair == SpecPages /\ WF_vars(NextPages)

\* The commands of cli.py that are modelled, and the operation each calls
CliCommands ==
    {"account", "shows get", "episodes get", "episodes list",
     "analytics show", "upload"}

CliOp(cmd) ==
    CASE cmd = "account" -> "get_account"
      [] cmd = "shows get" -> "get_show"
      [] cmd = "episodes get" -> "get_episode"
      [] cmd = "episodes list" -> "list_episodes"
      [] cmd = "analytics show" -> "get_show_analytics"
      [] cmd = "upload" -> "upload_audio"

\* How the process of a command ends: click exits 0 when the command
\* function returns, and an exception nobody caught ends the process with
\* a traceback and status 1
CliEnd(cmd, out, err, code, trace) ==
    [command |-> cmd, stdout |-> out, stderr |-> err, exit_code |-> code,
     traceback |-> trace]

\* try: result = client.<op>(...); click.echo(json.dumps(result, indent=2))
\* except TransistorAPIError as e: click.echo(f"Error: {e}", err=True)
CliRender(cmd, got) ==
    IF got.outcome = "return"
    THEN CliEnd(cmd, "rendered", <<>>, 0, FALSE)
    ELSE IF IsInstance(got.error, "TransistorAPIError")
    THEN CliEnd(cmd, "", <<"Error: ", got.message>>, 0, FALSE)
    ELSE CliEnd(cmd, "", <<"Traceback">>, 1, TRUE)

\* One run of the command-line program: main(), then the command.
CliCommand(cmd, file_exists, resp) ==
    /\ cli = NotRun
    /\ IF ~Truthy(api_key)
       THEN /\ cli' = CliEnd(cmd, "Error: API key required", <<>>, 1, FALSE)
            /\ UNCHANGED <<clientVars, serverVars, bulkVars, sessionVars, otherVars,
                           sent_request, listing>>
       ELSE IF cmd = "upload"
       THEN IF ~file_exists
            THEN /\ cli' = CliEnd(cmd, "", <<"Error: ", "File not found">>, 0,
                                  FALSE)
                 /\ UNCHANGED <<clientVars, serverVars, bulkVars, sessionVars, otherVars,
                                sent_request, listing>>
            ELSE /\ UploadAudio(TRUE, resp)
                 /\ cli' = CliRender(cmd, result'.got)
       ELSE IF cmd = "episodes list"
       THEN /\ \E show_id \in {PyNone, "7"} : ListEpisodes(show_id, {}, resp)
            /\ cli' = CliRender(cmd, result'.got)
       ELSE /\ Request(CliOp(cmd), resp)
            /\ cli' = CliRender(cmd, result'.got)
    /\ UNCHANGED earlier

\* The program is started with or without a key; main() builds the client,
\* with the limiter on, only when it has one.
InitCli ==
    /\ InitClient
    /\ InitBulk
    /\ InitOther
    /\ api_key \in {"", "key-a"}
    /\ session_headers =
           IF Truthy(api_key) THEN SessionHeaders(api_key)
           ELSE [h \in HeaderNames |-> Absent]
    /\ auto_rate_limit = TRUE
    /\ analytics = EmptyDoc
    /\ listed = <<>>

NextCli ==
    \E cmd \in CliCommands, f \in BOOLEAN, resp \in Responses :
        CliCommand(cmd, f, resp)

SpecCli == InitCli /\ [][NextCli]_vars

\* The limiter under one thread calling get_account at arbitrary times
\* (test_rate_limiting.py).
NextLimiter ==
    \/ \E d \in Delays : Advance(d)
    \/ nreq < MaxRequests /\ Call("get_account", OkResponse)

SpecLimiter == Init /\ [][NextLimiter]_vars

\* get_all_episode_ids against every analytics document and every answer.
InitIds ==
    /\ InitClient
    /\ InitBulk
    /\ InitOther
    /\ InitSession({"key-a"})
    /\ auto_rate_limit \in BOOLEAN
    /\ analytics \in FreeDocs
    /\ listed \in ListPages(analytics.ids)

NextIds == nreq < MaxOps /\ \E resp \in Responses : GetAllEpisodeIds(resp)

SpecIds == InitIds /\ [][NextIds]_vars

\* get_all_episodes_full_data against every outcome of every fetch.
InitFullData ==
    /\ InitClient
    /\ InitBulk
    /\ InitOther
    /\ InitSession({"key-a"})
    /\ auto_rate_limit = TRUE
    /\ analytics \in BulkDocs
    /\ listed = LastPage(analytics.ids)

NextFullData ==
    \/ \E resp \in BulkResponses : BulkStart(resp)
    \/ \E resp \in BulkResponses : BulkFetch(resp)
    \/ BulkReturn

SpecFullData == InitFullData /\ [][NextFullData]_vars

----------------------------------------------------------------------------
(* The rate limiter's claims, under SpecLimiter *)

\* C1: with rate limiting enabled and one calling thread, no more than 10
\* requests leave the client in any trailing 10-second window: of any 11
\* consecutive requests, the last leaves at least 10 seconds after the first.
C1_AtMostTenPerWindow ==
    auto_rate_limit =>
        \A k \in 1..(Len(wire) - RateLimit) :
            wire[k + RateLimit].at - wire[k].at >= RateWindow

\* The calls made so far are all the calls of the client, each entered the
\* moment the previous one returned.
InSuccession ==
    /\ nreq = Len(wire)
    /\ \A k \in 1..(Len(wire) - 1) : wire[k + 1].entered = wire[k].at

\* C2: when enforce() is called in immediate succession on a fresh client,
\* calls 1 to 10 return without blocking and the 11th call does not return
\* until at least 10 seconds have elapsed since the 1st call.
C2_EleventhCallBlocks ==
    (auto_rate_limit /\ InSuccession) =>
        \A k \in 1..Len(wire) :
            /\ k <= RateLimit => wire[k].at = wire[k].entered
            /\ k = RateLimit + 1 => wire[k].at - wire[1].entered >= RateWindow

\* Twelve calls in immediate succession, the 11th of which was held back.
C2_Witness ==
    /\ auto_rate_limit
    /\ InSuccession
    /\ Len(wire) = RateLimit + 2
    /\ wire[RateLimit + 1].at > wire[RateLimit + 1].entered

\* C3: the timestamp enforce() records into the window is the time after
\* any wait, the moment the request is released.
C3_RecordsReleaseTime ==
    (auto_rate_limit /\ wire # <<>>) =>
        request_times[Len(request_times)] = wire[Len(wire)].at

----------------------------------------------------------------------------
(* The request pipeline's claims, under Spec *)

ViaRequest == result.op \in RequestOps /\ result.resp.kind = "http"
SpecificStatuses == {429, 401, 404, 422}

\* C4 as stated: for every HTTP response returned to _request, 429 raises
\* RateLimitError, 401 AuthenticationError, 404 NotFoundError, 422
\* ValidationError, any other non-2xx status the generic TransistorAPIError
\* and a 2xx status nothing; every raised error carries the status code and
\* the response.
C4_StatusMapping ==
    ViaRequest =>
        LET s == result.resp.status
            g == result.got
        IN  /\ s = 429 => g.outcome = "raise" /\ g.error = "RateLimitError"
            /\ s = 401 => g.outcome = "raise" /\ g.error = "AuthenticationError"
            /\ s = 404 => g.outcome = "raise" /\ g.error = "NotFoundError"
            /\ s = 422 => g.outcome = "raise" /\ g.error = "ValidationError"
            /\ (s \notin SpecificStatuses /\ ~(200 <= s /\ s < 300)) =>
                   g.outcome = "raise" /\ g.error = "TransistorAPIError"
            /\ (200 <= s /\ s < 300) => g.outcome = "return"
            /\ g.outcome = "raise" =>
                   g.status_code = s /\ g.response = result.resp

\* C4 as amended: 429, 401, 404 and 422 raise their specific error and any
\* other status from 400 to 599 the generic one, each carrying the status
\* code and the response; any other status raises no status error: an empty
\* body returns {}, a JSON body its document, and a body that is not JSON
\* fails in parsing with an error that carries no status code.
C4_StatusMappingAmended ==
    ViaRequest =>
        LET s == result.resp.status
            g == result.got
        IN  /\ s = 429 => g.outcome = "raise" /\ g.error = "RateLimitError"
            /\ s = 401 => g.outcome = "raise" /\ g.error = "AuthenticationError"
            /\ s = 404 => g.outcome = "raise" /\ g.error = "NotFoundError"
            /\ s = 422 => g.outcome = "raise" /\ g.error = "ValidationError"
            /\ (s \notin SpecificStatuses /\ 400 <= s /\ s < 600) =>
                   g.outcome = "raise" /\ g.error = "TransistorAPIError"
            /\ (400 <= s /\ s < 600) =>
                   g.status_code = s /\ g.response = result.resp
            /\ ~(400 <= s /\ s < 600) =>
                   /\ result.resp.body = "empty" =>
                          g.outcome = "return" /\ g.value = "{}"
                   /\ result.resp.body = "json" =>
                          g.outcome = "return" /\ g.value = "document"
                   /\ result.resp.body = "malformed" =>
                          /\ g.outcome = "raise"
                          /\ g.status_code = NoStatus
                          /\ g.response = NoResponse

\* A 304 response came back to _request and the operation returned normally.
C4_Witness ==
    /\ ViaRequest
    /\ result.resp.status = 304
    /\ result.got.outcome = "return"

\* C9: when rate limiting is enabled, enforce() is executed before every
\* outgoing HTTP request of every client operation: every request on the
\* wire passed through the limiter and is recorded in the window.
C9_EveryRequestEnforced ==
    auto_rate_limit =>
        /\ \A k \in 1..Len(wire) : wire[k].enforced
        /\ (clock = 0 /\ nreq <= RateLimit) => Len(request_times) = nreq

\* The request of the operation got no answer or an error status
RequestFailed(resp) ==
    resp.kind = "neterr" \/ (resp.kind = "http" /\ 400 <= resp.status /\ resp.status < 600)

\* C10: every failure of a single-resource operation reaches the caller as a
\* raised TransistorAPIError or one of its subtypes; no such operation
\* returns a normal result after its request failed.
C10_FailuresAreTransistorErrors ==
    (result.sent /\ RequestFailed(result.resp)) =>
        result.got.outcome = "raise" /\ IsTransistorAPIError(result.got.error)

----------------------------------------------------------------------------
(* The claim of get_all_episode_ids, under SpecIds *)

RECURSIVE ParseInt(_)
\* The number a sequence of decimal digits writes
ParseInt(digits) ==
    IF digits = <<>> THEN 0
    ELSE ParseInt(SubSeq(digits, 1, Len(digits) - 1)) * 10 + digits[Len(digits)]

IdsReturned ==
    result.op = "get_all_episode_ids" /\ result.got.outcome = "return"

\* C5: get_all_episode_ids returns every episode id contained in the
\* all-episodes analytics document of the show, in the document's order and
\* without duplication or omission, whatever the list endpoint returns.
C5_AllIdsInOrder ==
    IdsReturned =>
        LET contained == IF result.resp.body = "json" THEN analytics.ids ELSE <<>>
        IN  /\ Len(ids_result) = Len(contained)
            /\ \A k \in 1..Len(contained) : ParseInt(ids_result[k]) = contained[k]

\* All the ids of a show came back although the list endpoint holds fewer.
C5_Witness ==
    /\ IdsReturned
    /\ Len(ids_result) >= 3
    /\ Len(listed) < Len(ids_result)
    /\ ids_result[1] # ids_result[2]

----------------------------------------------------------------------------
(* The claims of get_all_episodes_full_data, under SpecFullData *)

IsOk(f) == f.ok
IsFailed(f) == ~f.ok
PausedAfter == {pauses[j] : j \in 1..Len(pauses)}
SuccessesUpTo(k) == Cardinality({j \in 1..k : fetched[j].ok})
FullDataStep == (\E resp \in BulkResponses : BulkFetch(resp)) \/ BulkReturn

\* C6: the single-episode fetch is issued exactly once for each id, one
\* after the other and in list order; a failed fetch never prevents the
\* later ones from being issued.
C6_EveryIdFetchedOnce ==
    /\ Len(fetched) = idx
    /\ Len(fetched) <= Len(episode_ids)
    /\ \A k \in 1..Len(fetched) : fetched[k].id = episode_ids[k]
    /\ pc = "loop" => ENABLED FullDataStep
    /\ pc = "raised" => fetched = <<>>
    /\ pc = "done" => Len(fetched) = Len(episode_ids)

\* The batch ended although its first fetch failed, and later ones succeeded.
C6_Witness ==
    /\ pc = "done"
    /\ Len(fetched) >= 3
    /\ ~fetched[1].ok
    /\ fetched[Len(fetched)].ok

\* C7: the result partitions the requested ids: the successes, in request
\* order, are the records of data, the failures are the {id, error} entries
\* of failed_episodes, and successful + failed = total_requested.
C7_ResultPartitionsIds ==
    pc = "done" =>
        LET good == SelectSeq(fetched, IsOk)
            bad == SelectSeq(fetched, IsFailed)
            failed == ret.meta.failed_episodes
        IN  /\ Len(ret.data) = Len(good)
            /\ \A k \in 1..Len(good) : ret.data[k].id = good[k].id
            /\ Len(failed) = Len(bad)
            /\ \A k \in 1..Len(bad) :
                   failed[k].id = bad[k].id /\ failed[k].error # ""
            /\ ret.meta.successful = Len(ret.data)
            /\ ret.meta.failed = Len(failed)
            /\ ret.meta.total_requested = Len(episode_ids)
            /\ ret.meta.successful + ret.meta.failed = ret.meta.total_requested

\* Exactly one fetch failed and every other one succeeded.
C7_Witness ==
    /\ pc = "done"
    /\ ret.meta.failed = 1
    /\ ret.meta.successful >= 2
    /\ ret.meta.total_requested = ret.meta.successful + 1

----------------------------------------------------------------------------
(* The error handling claims of the request pipeline, under Spec *)

SpecificErrors ==
    {"RateLimitError", "AuthenticationError", "NotFoundError", "ValidationError"}

\* C11: when the HTTP call made by _request fails at network level, _request
\* raises the generic TransistorAPIError, not one of the four specific
\* kinds, with a message that wraps the underlying cause, and returns no
\* result.
C11_NetworkFailureIsGeneric ==
    (result.op \in RequestOps /\ result.resp.kind = "neterr") =>
        /\ result.got.outcome = "raise"
        /\ result.got.error = "TransistorAPIError"
        /\ result.got.error \notin SpecificErrors
        /\ result.got.message = "Request failed: <cause>"
        /\ result.got.value = "none"

\* An operation that goes through _request met a network failure.
C11_Witness ==
    /\ result.op = "get_show"
    /\ result.sent
    /\ result.resp = NetworkFailure
    /\ result.got.outcome = "raise"

C13_UniformTaxonomy ==
    result.sent =>
        LET s == result.resp.status
            g == result.got
        IN  /\ (result.resp.kind = "http" /\ s = 401) =>
                   g.outcome = "raise" /\ g.error = "AuthenticationError"
            /\ (result.resp.kind = "http" /\ s = 404) =>
                   g.outcome = "raise" /\ g.error = "NotFoundError"
            /\ (result.resp.kind = "http" /\ s = 422) =>
                   g.outcome = "raise" /\ g.error = "ValidationError"
            /\ (result.resp.kind = "http" /\ s = 429) =>
                   g.outcome = "raise" /\ g.error = "RateLimitError"
            /\ result.resp.kind = "neterr" =>
                   g.outcome = "raise" /\ g.error = "TransistorAPIError"

----------------------------------------------------------------------------
(* The limiter's switch and its effects, under SpecLimiter *)

C15_EnforceOnlyDelaysAndRecords ==
    [][(auto_rate_limit /\ nreq' # nreq) =>
          /\ clock' >= clock
          /\ \E k \in 0..Len(request_times) :
                 request_times' =
                     Append(SubSeq(request_times, k + 1, Len(request_times)),
                            clock)
          /\ Len(request_times') <= RateLimit
          /\ nreq' = nreq + 1
          /\ Len(wire') >= 1
          /\ wire'[Len(wire')].at = clock'
          /\ result'.sent
          /\ result'.got = Return("document")]_vars

\* A call was held back by the limiter, recorded its timestamp and went on.
C15_Witness ==
    /\ auto_rate_limit
    /\ Len(wire) >= 1
    /\ wire[Len(wire)].enforced
    /\ wire[Len(wire)].at > wire[Len(wire)].entered
    /\ request_times # <<>>
    /\ request_times[Len(request_times)] = wire[Len(wire)].entered
    /\ result.got.outcome = "return"

----------------------------------------------------------------------------
(* The exception hierarchy, under Spec *)

\* C17: the four specific errors are subtypes of TransistorAPIError: a
\* handler for TransistorAPIError catches every error raised for an HTTP
\* status, and a handler for a specific kind catches only that kind.
C17_HandlersFollowHierarchy ==
    /\ \A cls \in SpecificErrors : IsInstance(cls, "TransistorAPIError")
    /\ (result.got.outcome = "raise" /\ result.got.status_code # NoStatus) =>
           /\ IsInstance(result.got.error, "TransistorAPIError")
           /\ \A h \in SpecificErrors :
                  IsInstance(result.got.error, h) <=> result.got.error = h

\* A 422 raised ValidationError: the ValidationError handler and the
\* TransistorAPIError handler catch it, the NotFoundError handler does not.
C17_Witness ==
    /\ result.sent
    /\ result.resp.kind = "http"
    /\ result.resp.status = 422
    /\ result.got.outcome = "raise"
    /\ result.got.error = "ValidationError"
    /\ result.got.status_code = 422
    /\ IsInstance(result.got.error, "TransistorAPIError")
    /\ ~IsInstance(result.got.error, "NotFoundError")

----------------------------------------------------------------------------
(* The headers of the requests, under Spec *)

\* C20: every HTTP request the client sends carries the API key given at
\* construction in the x-api-key header, together with the Accept header;
\* the key never changes after construction; the JSON Content-Type goes with
\* every request except the audio upload.
C20_EveryRequestCarriesTheKey ==
    [][/\ api_key' = api_key
       /\ session_headers'["x-api-key"] = api_key
       /\ nreq' # nreq =>
              LET h == sent_request'.headers
              IN  /\ h["x-api-key"] = api_key
                  /\ h["Accept"] = "application/json"
                  /\ h["Content-Type"] = "application/json"
                         <=> sent_request'.op # "upload_audio"]_vars

\* An upload went out after a request of another operation, with the key
\* and without the JSON content type.
C20_Witness ==
    /\ nreq = 2
    /\ wire[1].op = "get_show"
    /\ sent_request.op = "upload_audio"
    /\ sent_request.headers["x-api-key"] = api_key
    /\ sent_request.headers["Content-Type"] # "application/json"
    /\ api_key = "key-b"

----------------------------------------------------------------------------
(* Repeated reads, under SpecShow *)

----------------------------------------------------------------------------
(* list_episodes, under SpecList *)

\* C19: list_episodes(show_id, **params) issues exactly one GET to the
\* `episodes` endpoint, with show_id added as a query parameter when one is
\* given and the other parameters forwarded as they are, and returns the
\* server's document unchanged; it never fetches further pages, whatever
\* the totals of that document say.
C19_ListEpisodesIsOneGet ==
    [][nreq' # nreq =>
          /\ nreq' = nreq + 1
          /\ sent_request'.method = "GET"
          /\ sent_request'.endpoint = "episodes"
          /\ Truthy(listing'.show_id) =>
                 <<"show_id", listing'.show_id>> \in sent_request'.params
          /\ listing'.show_id = PyNone =>
                 \A p \in sent_request'.params : p[1] # "show_id"
          /\ {p \in sent_request'.params : p[1] # "show_id"} = listing'.params
          /\ (result'.got.outcome = "return" /\ result'.resp.body = "json") =>
                 listing'.returned = ServerListDoc
          /\ (result'.got.outcome = "return" /\ result'.resp.body = "empty") =>
                 listing'.returned = EmptyListDoc]_vars

\* The episodes of a show of more than one page were listed with a filter:
\* one request went out and the first document came back as it was.
C19_Witness ==
    /\ nreq = 1
    /\ result.op = "list_episodes"
    /\ listing.show_id = "7"
    /\ listing.params = {<<"status", "published">>}
    /\ sent_request.endpoint = "episodes"
    /\ <<"show_id", "7">> \in sent_request.params
    /\ listing.returned = ServerListDoc
    /\ listing.returned.totalPages > 1
    /\ Len(listing.returned.data) = ListCap

----------------------------------------------------------------------------
(* The command-line front end, under SpecCli *)

\* C18: when a client operation invoked by a CLI command raises a
\* TransistorAPIError, the CLI prints the error's message to the error
\* stream and exits with a non-zero status, without a stack trace.
C18_CliErrorExitsNonZero ==
    (/\ cli.command # "none"
     /\ result.sent
     /\ result.got.outcome = "raise"
     /\ IsInstance(result.got.error, "TransistorAPIError")) =>
        /\ cli.stderr = <<"Error: ", result.got.message>>
        /\ ~cli.traceback
        /\ cli.exit_code # 0

----------------------------------------------------------------------------
(* The window of the limiter, under SpecLimiter *)

\* C22: in every reachable state the rate-limit window holds at most 10
\* timestamps and they are in non-decreasing time order; after the eviction
\* step of a call entered now, no retained timestamp is more than 10 seconds
\* older than now.
C22_WindowBoundedOrderedFresh ==
    /\ Len(request_times) <= RateLimit
    /\ \A k \in 1..(Len(request_times) - 1) :
           request_times[k] <= request_times[k + 1]
    /\ LET kept == EvictOld(request_times, clock)
       IN  \A k \in 1..Len(kept) : clock - kept[k] <= RateWindow

\* The window is full and more than one of its timestamps has aged out.
C22_Witness ==
    /\ Len(request_times) = RateLimit
    /\ clock - request_times[2] > RateWindow
    /\ Len(EvictOld(request_times, clock)) < RateLimit - 1
    /\ request_times[1] < request_times[RateLimit]

\* C23: a call of the limiter blocks only when the window holds 10
\* timestamps after eviction, and then for exactly
\* 10 - (now - oldest) + 0.1 seconds, a value between 0.1 and 10.1 seconds;
\* with fewer than 10 retained timestamps it does not block, so every call
\* ends.
C23_BlocksOnlyOnFullWindow ==
    LET kept == EvictOld(request_times, clock)
        sleep_time == SleepTime(kept, clock)
    IN  /\ Len(kept) < RateLimit => sleep_time = 0
        /\ Len(kept) >= RateLimit =>
               /\ sleep_time = RateWindow - (clock - Head(kept)) + Buffer
               /\ Buffer <= sleep_time
               /\ sleep_time <= RateWindow + Buffer
        /\ \A k \in 1..Len(wire) :
               /\ wire[k].at - wire[k].entered >= 0
               /\ wire[k].at - wire[k].entered <= RateWindow + Buffer

\* A call met a full window whose oldest timestamp was exactly 10 seconds
\* old, and blocked for the buffer alone.
C23_Witness ==
    /\ auto_rate_limit
    /\ Len(wire) >= 1
    /\ wire[Len(wire)].at - wire[Len(wire)].entered = Buffer
    /\ Len(request_times) = RateLimit

----------------------------------------------------------------------------
(* Slots and retries, under Spec *)

\* C26: with rate limiting enabled, every call of _request appends exactly
\* one timestamp to the window before the HTTP call, whatever the outcome
\* of that call: a network failure or an error status consumes a slot like
\* a success does.
C26_EveryOutcomeConsumesASlot ==
    [][(auto_rate_limit /\ nreq' # nreq /\ result'.op \in RequestOps) =>
          LET kept == EvictOld(request_times, clock)
          IN  /\ Len(kept) < RateLimit =>
                     request_times' = Append(kept, clock)
              /\ Len(kept) >= RateLimit =>
                     request_times' = Append(Tail(kept), clock)
              /\ result'.sent]_vars

\* A request answered with a 500 left its timestamp in the window like the
\* request before it.
C26_Witness ==
    /\ auto_rate_limit
    /\ nreq = 2
    /\ Len(request_times) = 2
    /\ wire[1].op \in RequestOps
    /\ result.op \in RequestOps
    /\ result.resp.kind = "http"
    /\ result.resp.status = 500
    /\ result.got.outcome = "raise"

\* C27: each call of a single-resource operation issues exactly one HTTP
\* request: the client never retries; a 429 raises RateLimitError at once,
\* without any waiting or re-sending by the client.
C27_OneRequestNoRetry ==
    [][(nreq' # nreq /\ result'.op \in RequestOps) =>
          /\ nreq' = nreq + 1
          /\ Len(wire) < WireKeep => Len(wire') = Len(wire) + 1
          /\ wire'[Len(wire')].op = result'.op
          /\ sent_request'.op = result'.op
          /\ (result'.resp.kind = "http" /\ result'.resp.status = 429) =>
                 /\ result'.got.outcome = "raise"
                 /\ result'.got.error = "RateLimitError"
                 /\ result'.got.status_code = 429
                 /\ clock' = LimiterStep.woke]_vars

\* A 429 came back for a request and the error is with the caller; one
\* request is all that went out.
C27_Witness ==
    /\ nreq = 1
    /\ Len(wire) = 1
    /\ result.op = "get_episode"
    /\ result.resp.kind = "http"
    /\ result.resp.status = 429
    /\ result.got.error = "RateLimitError"
    /\ clock = 0

----------------------------------------------------------------------------
(* The first request of the bulk fetch, under SpecFullData *)

\* C28: in get_all_episodes_full_data only the failures of the per-episode
\* fetches are downgraded to report entries: if the initial all-episodes
\* analytics request fails, the error propagates to the caller, no episode
\* fetch is issued and no partial result is returned.
C28_InitialFailurePropagates ==
    (/\ pc # "idle"
     /\ idx = 0
     /\ RequestFailed(result.resp)) =>
        /\ pc = "raised"
        /\ result.op = "get_all_episodes_full_data"
        /\ result.got.outcome = "raise"
        /\ IsTransistorAPIError(result.got.error)
        /\ fetched = <<>>
        /\ episodes = <<>>
        /\ failed_episodes = <<>>
        /\ ret = NoResult
        /\ ~ENABLED FullDataStep

\* The analytics request of a show with episodes came back 404: the error
\* is with the caller and nothing was fetched.
C28_Witness ==
    /\ pc = "raised"
    /\ idx = 0
    /\ Len(analytics.ids) >= 2
    /\ result.resp = NotFound
    /\ result.got.error = "NotFoundError"
    /\ nreq = 1
    /\ fetched = <<>>
    /\ ret = NoResult

----------------------------------------------------------------------------
(* The pagination loops of TransistorClientFixed, under SpecPages *)

PageServed == page_got.outcome = "return" /\ page_got.value = "document"
PageApiError ==
    page_got.outcome = "raise" /\ IsInstance(page_got.error, "TransistorAPIError")

\* C21: get_all_episodes(show_id, batch_size) returns every episode of the
\* show exactly once, in server order, for every batch_size >= 1 and every
\* episode count, when the server honours page and per_page.
C21_AllEpisodesOnceInOrder ==
    (/\ pg_pc = "done"
     /\ loop_kind = "get_all_episodes"
     /\ server_mode = "honours"
     /\ PageServed) =>
        /\ pg_ret.outcome = "return"
        /\ pg_ret.data = analytics.ids
        /\ pg_ret.meta.total_count = Len(analytics.ids)

C25_LaterPageErrorEndsLoop ==
    (/\ pg_pc \in {"done", "raised"}
     /\ loop_kind = "get_all_episodes"
     /\ PageApiError) =>
        /\ page = 1 =>
               /\ pg_pc = "raised"
               /\ pg_ret.outcome = "raise"
               /\ pg_ret.error = page_got.error
               /\ pg_ret.data = <<>>
        /\ page > 1 =>
               /\ pg_pc = "done"
               /\ pg_ret.outcome = "return"
               /\ pg_ret.data = all_episodes
               /\ pg_ret.meta.total_count = Len(pg_ret.data)
               /\ server_mode = "honours" =>
                      pg_ret.data =
                          SubSeq(analytics.ids, 1,
                                 (page - 1) * CappedPerPage(batch_size))

\* The third page of a show of 65 episodes, read 20 at a time, came back
\* 404: the 40 episodes of the first two pages are the result.
C25_Witness ==
    /\ pg_pc = "done"
    /\ loop_kind = "get_all_episodes"
    /\ server_mode = "honours"
    /\ Len(analytics.ids) = 65
    /\ batch_size = 20
    /\ page = 3
    /\ page_got.outcome = "raise"
    /\ page_got.error = "NotFoundError"
    /\ Len(pg_ret.data) = 40
    /\ pg_ret.meta.total_count = 40

----------------------------------------------------------------------------
(* The two bulk fetches side by side, under SpecEquiv *)

BothEnded == pc \in {"done", "raised"} /\ ff_pc \in {"done", "raised"}

\* C29: get_all_episodes_full_data of TransistorClientFinalFix and of
\* TransistorClient are equivalent: for every analytics document and every
\* sequence of per-episode responses, episode records without attributes or
\* title included, they issue the same requests and return the same data
\* and meta, and both keep successful + failed = total_requested.
C29_FinalFixEquivalent ==
    BothEnded =>
        /\ ff_pc = pc
        /\ ff_fetched = fetched
        /\ pc = "raised" => ff_raised = result.got
        /\ pc = "done" =>
               /\ ff_ret = ret
               /\ ret.meta.successful + ret.meta.failed
                      = ret.meta.total_requested
               /\ ff_ret.meta.successful + ff_ret.meta.failed
                      = ff_ret.meta.total_requested


\* The releases k .. k+10 leave within one window of 10 s
Burst(k) == wire[k + RateLimit].at - wire[k].at < RateWindow

\* One of the releases k .. k+10 slept in the limiter: it left later than
\* the time it recorded, which one thread alone does as well
SleptIn(k) == \E j \in k..(k + RateLimit) : wire[j].at > wire[j].entered

\* C30: when the two threads serialize the limiter with a lock of their
\* own, no interleaving lets eleven requests leave within 10 s unless one
\* of them slept in the limiter (the releases a single thread produces as
\* well), and no access to the window fails; the window bound is lost
\* only without the lock.
C30_LockKeepsTheBound ==
    locked =>
        /\ \A k \in 1..(Len(wire) - RateLimit) : Burst(k) => SleptIn(k)
        /\ \A t \in Threads : th_last[t] # "IndexError"
        /\ Len(request_times) <= RateLimit

\* Without the lock both threads read a window of nine before either
\* records, and eleven requests none of which slept leave within 10 s.
C30_Witness ==
    /\ ~locked
    /\ \E k \in 1..(Len(wire) - RateLimit) : Burst(k) /\ ~SleptIn(k)

\* With the lock held the other thread waits outside the limiter.
C30_WitnessLocked ==
    /\ locked
    /\ lock_owner # 0
    /\ Len(wire) > RateLimit
====
